---- MODULE Spec2Model ----
(***************************************************************************)
(* MyTaskManager: the List/Task request contract of ListController and     *)
(* DashboardController (Laravel) and the CRUD dialog state machines of the *)
(* Lists and Tasks pages (React + Inertia).                                *)
(***************************************************************************)
EXTENDS Integers, Sequences, FiniteSets, Bags, TLC

(***************************************************************************)
(* Bounds of the model.                                                    *)
(***************************************************************************)
MaxLists == 2
MaxTasks == 1
MaxClock == 1
MaxPageLists == 1
MaxPageTasks == 1
MaxListedTasks == 2
PerPage == 1
MaxStale == 1
MaxFetches == 2

(***************************************************************************)
(* Program constants.                                                      *)
(***************************************************************************)
MaxTitleLen == 255

\* setTimeout(..., 3000): the milliseconds a toast's auto-hide timer runs.
ToastMs == 3000

NULL == "null"
Users == {"u1", "u2"}

\* A title of MaxTitleLen + 1 = 256 characters (16 rows of 16).
LongTitle ==
    "xxxxxxxxxxxxxxxx" \o "xxxxxxxxxxxxxxxx" \o "xxxxxxxxxxxxxxxx" \o "xxxxxxxxxxxxxxxx" \o
    "xxxxxxxxxxxxxxxx" \o "xxxxxxxxxxxxxxxx" \o "xxxxxxxxxxxxxxxx" \o "xxxxxxxxxxxxxxxx" \o
    "xxxxxxxxxxxxxxxx" \o "xxxxxxxxxxxxxxxx" \o "xxxxxxxxxxxxxxxx" \o "xxxxxxxxxxxxxxxx" \o
    "xxxxxxxxxxxxxxxx" \o "xxxxxxxxxxxxxxxx" \o "xxxxxxxxxxxxxxxx" \o "xxxxxxxxxxxxxxxx"

\* Request bodies {title, description} sent to POST /lists and PUT /lists/{id}:
\* two valid ones, one without title, one with an oversized title.
Inputs ==
    { [title |-> "A", description |-> ""],
      [title |-> "B", description |-> "D"],
      [title |-> "", description |-> "D"],
      [title |-> LongTitle, description |-> ""] }

VARIABLES
    lists,      \* table `lists`: id -> [title, description, user_id, created_at, updated_at]
    nextId,     \* auto-increment of table `lists`
    tasks,      \* table `tasks`: id -> [lists_id, is_completed, created_at, updated_at]
    nextTaskId, \* auto-increment of table `tasks`
    now,        \* the server clock, in seconds
    session,    \* per user, the flash data available to that user's next request
    response,   \* the page the server rendered last, with the flash data it carried
    props,      \* Lists page: the page props {lists, flash} of the last Inertia response
    isDialogOpen, \* Lists page: useState(false)
    editingList,  \* Lists page: useState<TaskList | null>(null)
    data,       \* Lists page: listForm.data
    processing, \* Lists page: listForm.processing
    errors,     \* Lists page: listForm.errors, the fields the server rejected
    toast,      \* Lists page: useState({show, message, type})
    visit,      \* Lists page: the Inertia visit in flight, if any
    timer,      \* Lists page: milliseconds left on the pending auto-hide timer, if any
    shown,      \* Lists page: milliseconds the toast's current message has been displayed
    mounted,    \* Lists page: the component is mounted
    selectedList, \* Lists page: useState<TaskList | null>(null), the list of the tasks dialog
    isTasksDialogOpen, \* Lists page: useState(false)
    fetches,    \* Lists page: the bag of lists whose handleListClick awaits its fetch
    lastClicked, \* Lists page: the id of the list card clicked last
    taskProps,  \* Tasks page: the page props {tasks, lists, flash}
    isOpen,     \* Tasks page: useState(false)
    editingTask,  \* Tasks page: useState<Task | null>(null)
    taskData,   \* Tasks page: useForm data
    taskProcessing, \* Tasks page: useForm processing
    showToast,  \* Tasks page: useState(false)
    toastMessage, \* Tasks page: useState('')
    toastType,  \* Tasks page: useState('success')
    taskVisit,  \* Tasks page: the Inertia visit in flight, if any
    searchTerm, \* Tasks page: useState(filters.search), the text of the search box
    completionFilter, \* Tasks page: useState(filters.filter)
    cancelled   \* Tasks page: the cancelled visits whose responses are still on their way

serverVars == <<lists, nextId, tasks, nextTaskId, now, session, response>>

\* The auto-hide timer of the Lists page toast and the component's life.
toastClock == <<timer, shown, mounted>>

\* The tasks dialog and the task fetches of handleListClick.
lazyVars == <<selectedList, isTasksDialogOpen, fetches, lastClicked>>

listsPageVars ==
    <<props, isDialogOpen, editingList, data, processing, errors, toast, visit, toastClock,
      lazyVars>>

\* The search box, the status filter and the superseded list requests.
searchVars == <<searchTerm, completionFilter, cancelled>>

tasksPageVars ==
    <<taskProps, isOpen, editingTask, taskData, taskProcessing,
      showToast, toastMessage, toastType, taskVisit, searchVars>>

clientVars == <<listsPageVars, tasksPageVars>>

(***************************************************************************)
(* Flash data: redirect()->with('success', ...) and session('success').    *)
(***************************************************************************)
NoFlash == [success |-> NULL, error |-> NULL]

WithSuccess(message) == [success |-> message, error |-> NULL]

(***************************************************************************)
(* $request->validate(['title' => 'required|string|max:255',               *)
(*                     'description' => 'nullable|string'])                *)
(***************************************************************************)
Valid(input) == input.title # "" /\ Len(input.title) <= MaxTitleLen

\* The validated description: an empty string reaches the model as null.
Validated(input) ==
    [title |-> input.title,
     description |-> IF input.description = "" THEN NULL ELSE input.description]

(***************************************************************************)
(* Route model binding of {list}: the row with that id, whoever owns it.   *)
(***************************************************************************)
Bound(id) == id \in DOMAIN lists

\* StoreResult with the lowest id that no row holds, so that the id of a
\* deleted list is given to the next one.
StoreResultReusingId(user, input) ==
    LET free == CHOOSE i \in 1..nextId :
                    i \notin DOMAIN lists /\ \A j \in 1..(i - 1) : j \in DOMAIN lists
    IN
    IF ~Valid(input)
    THEN [status |-> "invalid", lists |-> lists, nextId |-> nextId, flash |-> NoFlash]
    ELSE [status |-> "redirect",
          lists |-> (free :>
                      [title |-> Validated(input).title,
                       description |-> Validated(input).description,
                       user_id |-> user,
                       created_at |-> now,
                       updated_at |-> now]) @@ lists,
          nextId |-> IF free = nextId THEN nextId + 1 ELSE nextId,
          flash |-> WithSuccess("List Created Successfully")]

(***************************************************************************)
(* ListController::store                                                   *)
(***************************************************************************)
StoreResult(user, input) ==
    IF ~Valid(input)
    THEN [status |-> "invalid", lists |-> lists, nextId |-> nextId, flash |-> NoFlash]
    ELSE [status |-> "redirect",
          lists |-> lists @@ (nextId :>
                      [title |-> Validated(input).title,
                       description |-> Validated(input).description,
                       user_id |-> user,
                       created_at |-> now,
                       updated_at |-> now]),
          nextId |-> nextId + 1,
          flash |-> WithSuccess("List Created Successfully")]

\* Updated with a description that is not fillable: the stored one survives.
UpdatedWithoutDescription(row, user, input) ==
    LET new == [row EXCEPT !.title = Validated(input).title, !.user_id = user]
    IN  IF new = row THEN row ELSE [new EXCEPT !.updated_at = now]

(***************************************************************************)
(* ListController::update. Eloquent writes the row, and updated_at, only   *)
(* when an attribute differs from the stored one.                          *)
(***************************************************************************)
Updated(row, user, input) ==
    LET new == [row EXCEPT !.title = Validated(input).title,
                           !.description = Validated(input).description,
                           !.user_id = user]
    IN  IF new = row THEN row ELSE [new EXCEPT !.updated_at = now]

\* UpdateResult with updateOrCreate: a missing row is created under its id.
UpdateResultOrCreate(user, id, input) ==
    IF ~Valid(input)
    THEN [status |-> "invalid", lists |-> lists, flash |-> NoFlash]
    ELSE [status |-> "redirect",
          lists |-> (id :> [title |-> Validated(input).title,
                            description |-> Validated(input).description,
                            user_id |-> user,
                            created_at |-> now,
                            updated_at |-> now]) @@ lists,
          flash |-> WithSuccess("List updated successfully")]

UpdateResult(user, id, input) ==
    IF ~Bound(id)
    THEN [status |-> "notfound", lists |-> lists, flash |-> NoFlash]
    ELSE IF ~Valid(input)
    THEN [status |-> "invalid", lists |-> lists, flash |-> NoFlash]
    ELSE [status |-> "redirect",
          lists |-> [lists EXCEPT ![id] = Updated(lists[id], user, input)],
          flash |-> WithSuccess("List updated successfully")]

(***************************************************************************)
(* ListController::destroy                                                 *)
(***************************************************************************)
DestroyResult(user, id) ==
    IF ~Bound(id)
    THEN [status |-> "notfound", lists |-> lists, flash |-> NoFlash]
    ELSE [status |-> "redirect",
          lists |-> [i \in DOMAIN lists \ {id} |-> lists[i]],
          flash |-> WithSuccess("List Deleted Successfully")]

(***************************************************************************)
(* What deleting a list row does to the task rows that reference it: the   *)
(* foreign key of tasks.lists_id may cascade, reject the delete, or not be *)
(* enforced at all.                                                        *)
(***************************************************************************)
DeletePolicies == {"cascade", "restrict", "orphan"}

TasksOf(id) == {t \in DOMAIN tasks : tasks[t].lists_id = id}

TasksAfterDelete(id, policy) ==
    IF policy = "cascade"
    THEN [t \in DOMAIN tasks \ TasksOf(id) |-> tasks[t]]
    ELSE tasks

(***************************************************************************)
(* Query results. A row as the client sees it carries its id.              *)
(***************************************************************************)
ListRow(id) == [id |-> id] @@ lists[id]

TaskRow(t) == [id |-> t] @@ tasks[t]

\* Every order in which the rows of S can be returned.
Orderings(S) ==
    {s \in [1..Cardinality(S) -> S] : \A i, j \in DOMAIN s : s[i] = s[j] => i = j}

\* orderBy('updated_at', 'desc')->orderBy('created_at', 'desc')
Before(a, b) ==
    \/ a.updated_at > b.updated_at
    \/ a.updated_at = b.updated_at /\ a.created_at >= b.created_at

IsSorted(rows) ==
    \A i, j \in DOMAIN rows : i < j => Before(rows[i], rows[j])

\* OwnedLists without its where clause.
OwnedListsUnscoped(user) == DOMAIN lists

\* TaskList::where('user_id', Auth::id())
OwnedLists(user) == {id \in DOMAIN lists : lists[id].user_id = user}

\* ListController::index: ->get() without an ORDER BY, so the database
\* returns the rows in an order of its choosing.
IndexResults(user) ==
    {[i \in DOMAIN order |-> ListRow(order[i])] : order \in Orderings(OwnedLists(user))}

\* DashboardController::index, $lists
DashboardLists(user) ==
    {rows \in {[i \in DOMAIN order |->
                   [id |-> order[i],
                    title |-> lists[order[i]].title,
                    description |-> lists[order[i]].description,
                    created_at |-> lists[order[i]].created_at,
                    updated_at |-> lists[order[i]].updated_at]]
               : order \in Orderings(OwnedLists(user))} : IsSorted(rows)}

\* DashboardController::index, whereHas('list', user_id = $user->id)
OwnedTasks(user) ==
    {t \in DOMAIN tasks : tasks[t].lists_id \in OwnedLists(user)}

\* DashboardController::index, $tasks
DashboardTasks(user) ==
    {rows \in {[i \in DOMAIN order |-> TaskRow(order[i])]
               : order \in Orderings(OwnedTasks(user))} : IsSorted(rows)}

\* Count with pendingTasks counted without its where clause.
CountPendingUnfiltered(rows, value) ==
    IF value THEN Cardinality({i \in DOMAIN rows : rows[i].is_completed})
    ELSE Len(rows)

\* DashboardController::index, $stats
Count(rows, value) == Cardinality({i \in DOMAIN rows : rows[i].is_completed = value})

Stats(listRows, taskRows) ==
    [totalLists |-> Len(listRows),
     totalTasks |-> Len(taskRows),
     completedTasks |-> Count(taskRows, TRUE),
     pendingTasks |-> Count(taskRows, FALSE)]

(***************************************************************************)
(* The page the server rendered last: Inertia::render(..., ['flash' =>     *)
(* ['success' => session('success'), 'error' => session('error')]])        *)
(***************************************************************************)
Rendered(page, flash) == [page |-> page, flash |-> flash]

(***************************************************************************)
(* Requests made directly to the server by any user. Flash data lives for  *)
(* one request: every request ends with only the data it flashed itself.   *)
(***************************************************************************)
Tick ==
    /\ now < MaxClock
    /\ now' = now + 1
    /\ UNCHANGED <<lists, nextId, tasks, nextTaskId, session, response>>
    /\ UNCHANGED clientVars

\* POST /lists
ListStore(user, input) ==
    LET r == StoreResult(user, input) IN
    /\ nextId <= MaxLists
    /\ lists' = r.lists
    /\ nextId' = r.nextId
    /\ session' = [session EXCEPT ![user] = r.flash]
    /\ UNCHANGED <<tasks, nextTaskId, now, response>>
    /\ UNCHANGED clientVars

\* PUT /lists/{id}
ListUpdate(user, id, input) ==
    LET r == UpdateResult(user, id, input) IN
    /\ lists' = r.lists
    /\ session' = [session EXCEPT ![user] = r.flash]
    /\ UNCHANGED <<nextId, tasks, nextTaskId, now, response>>
    /\ UNCHANGED clientVars

\* DELETE /lists/{id}
ListDestroy(user, id, policy) ==
    LET r == DestroyResult(user, id)
        rejected == r.status = "redirect" /\ policy = "restrict" /\ TasksOf(id) # {}
    IN
    /\ lists' = IF rejected THEN lists ELSE r.lists
    /\ tasks' = IF rejected \/ r.status # "redirect" THEN tasks ELSE TasksAfterDelete(id, policy)
    /\ session' = [session EXCEPT ![user] = IF rejected THEN NoFlash ELSE r.flash]
    /\ UNCHANGED <<nextId, nextTaskId, now, response>>
    /\ UNCHANGED clientVars

\* ListIndex with flash data that outlives the render.
ListIndexKeepingFlash(user) ==
    /\ response' = Rendered("Lists/index", session[user])
    /\ UNCHANGED <<lists, nextId, tasks, nextTaskId, now, session>>
    /\ UNCHANGED clientVars

\* GET /lists
ListIndex(user) ==
    /\ response' = Rendered("Lists/index", session[user])
    /\ session' = [session EXCEPT ![user] = NoFlash]
    /\ UNCHANGED <<lists, nextId, tasks, nextTaskId, now>>
    /\ UNCHANGED clientVars

\* GET /dashboard
Dashboard(user) ==
    /\ response' = Rendered("Dashboard", session[user])
    /\ session' = [session EXCEPT ![user] = NoFlash]
    /\ UNCHANGED <<lists, nextId, tasks, nextTaskId, now>>
    /\ UNCHANGED clientVars

(***************************************************************************)
(* The task requests. A request body is {title, description, due_date,     *)
(* lists_id, is_completed}; lists_id 0 is the form's empty choice.         *)
(***************************************************************************)
ValidTask(user, input) ==
    /\ input.title # "" /\ Len(input.title) <= MaxTitleLen
    /\ input.lists_id \in OwnedLists(user)

TaskBound(id) == id \in DOMAIN tasks

\* POST /tasks
TaskStoreResult(user, input) ==
    IF ~ValidTask(user, input)
    THEN [status |-> "invalid", tasks |-> tasks, nextTaskId |-> nextTaskId, flash |-> NoFlash]
    ELSE [status |-> "redirect",
          tasks |-> tasks @@ (nextTaskId :>
                      [title |-> input.title,
                       lists_id |-> input.lists_id,
                       is_completed |-> input.is_completed,
                       created_at |-> now,
                       updated_at |-> now]),
          nextTaskId |-> nextTaskId + 1,
          flash |-> WithSuccess("Task created successfully")]

\* PUT /tasks/{id}
TaskUpdated(row, input) ==
    LET new == [row EXCEPT !.title = input.title,
                           !.lists_id = input.lists_id,
                           !.is_completed = input.is_completed]
    IN  IF new = row THEN row ELSE [new EXCEPT !.updated_at = now]

TaskUpdateResult(user, id, input) ==
    IF ~TaskBound(id)
    THEN [status |-> "notfound", tasks |-> tasks, nextTaskId |-> nextTaskId, flash |-> NoFlash]
    ELSE IF ~ValidTask(user, input)
    THEN [status |-> "invalid", tasks |-> tasks, nextTaskId |-> nextTaskId, flash |-> NoFlash]
    ELSE [status |-> "redirect",
          tasks |-> [tasks EXCEPT ![id] = TaskUpdated(tasks[id], input)],
          nextTaskId |-> nextTaskId,
          flash |-> WithSuccess("Task updated successfully")]

\* DELETE /tasks/{id}
TaskDestroyResult(user, id) ==
    IF ~TaskBound(id)
    THEN [status |-> "notfound", tasks |-> tasks, nextTaskId |-> nextTaskId, flash |-> NoFlash]
    ELSE [status |-> "redirect",
          tasks |-> [t \in DOMAIN tasks \ {id} |-> tasks[t]],
          nextTaskId |-> nextTaskId,
          flash |-> WithSuccess("Task deleted successfully")]

(***************************************************************************)
(* GET /tasks?search=&filter=&page=. A query is the record of the          *)
(* parameters the request carries; a parameter the request leaves out is   *)
(* no field of it.                                                         *)
(***************************************************************************)
Statuses == {"all", "completed", "pending"}

\* GET /tasks without parameters, as the redirect of a mutation requests it.
DefaultQuery == [search |-> "", filter |-> "all"]

\* The letters of the titles and search terms of the model, in lower case.
LowerChar(c) ==
    IF c = "T" THEN "t" ELSE IF c = "X" THEN "x" ELSE c

RECURSIVE Lower(_)
Lower(str) ==
    IF Len(str) = 0 THEN ""
    ELSE LowerChar(SubSeq(str, 1, 1)) \o Lower(SubSeq(str, 2, Len(str)))

\* term is a substring of str
Contains(str, term) ==
    \E i \in 1..(Len(str) - Len(term) + 1) : SubSeq(str, i, i + Len(term) - 1) = term

\* Case-insensitive substring match on the title; an empty search matches all.
Matches(row, search) == Contains(Lower(row.title), Lower(search))

\* completed: is_completed = true, pending: is_completed = false, all: any
HasStatus(row, status) ==
    \/ status = "all"
    \/ status = "completed" /\ row.is_completed
    \/ status = "pending" /\ ~row.is_completed

\* page defaults to 1
RequestedPage(query) == IF "page" \in DOMAIN query THEN query.page ELSE 1

\* LastPage with no page at all for an empty result.
LastPageOfNone(total) == (total + PerPage - 1) \div PerPage

LastPage(total) ==
    IF total = 0 THEN 1 ELSE (total + PerPage - 1) \div PerPage

\* PageResult = {data, current_page, last_page, per_page, total, from, to}
PageResult(rows, page) ==
    LET total == Len(rows)
        from == IF (page - 1) * PerPage < total THEN (page - 1) * PerPage + 1 ELSE 0
        to == IF from = 0 THEN 0
              ELSE IF page * PerPage < total THEN page * PerPage ELSE total
    IN  [data |-> IF from = 0 THEN <<>> ELSE SubSeq(rows, from, to),
         current_page |-> page,
         last_page |-> LastPage(total),
         per_page |-> PerPage,
         total |-> total,
         from |-> from,
         to |-> to]

\* The page that answers a request for page: 1 <= current_page <= last_page
AnsweredPage(total, page) ==
    IF page < 1 THEN 1 ELSE IF page <= LastPage(total) THEN page ELSE LastPage(total)

\* GET /tasks: the caller's tasks, filtered, most recently updated first,
\* paginated.
TaskIndexResults(user, query) ==
    {LET found == SelectSeq(rows, LAMBDA row :
                      Matches(row, query.search) /\ HasStatus(row, query.filter))
     IN  PageResult(found, AnsweredPage(Len(found), RequestedPage(query)))
     : rows \in DashboardTasks(user)}

\* useForm({title: '', description: '', due_date: '', lists_id: '', is_completed: false})
EmptyTaskForm ==
    [title |-> "", description |-> "", due_date |-> "", lists_id |-> 0,
     is_completed |-> FALSE]

\* POST /tasks made directly: a task titled T in list listId.
TaskStore(user, listId, completed) ==
    LET r == TaskStoreResult(user, [EmptyTaskForm EXCEPT !.title = "T",
                                        !.lists_id = listId, !.is_completed = completed])
    IN
    /\ nextTaskId <= MaxTasks
    /\ r.status = "redirect"
    /\ tasks' = r.tasks
    /\ nextTaskId' = r.nextTaskId
    /\ session' = [session EXCEPT ![user] = r.flash]
    /\ UNCHANGED <<lists, nextId, now, response>>
    /\ UNCHANGED clientVars

\* PUT /tasks/{id} made directly: the task retitled T, put into list listId.
TaskUpdate(user, id, listId, completed) ==
    LET r == TaskUpdateResult(user, id, [EmptyTaskForm EXCEPT !.title = "T",
                                             !.lists_id = listId, !.is_completed = completed])
    IN
    /\ tasks' = r.tasks
    /\ session' = [session EXCEPT ![user] = r.flash]
    /\ UNCHANGED <<lists, nextId, nextTaskId, now, response>>
    /\ UNCHANGED clientVars

\* DELETE /tasks/{id} made directly.
TaskDestroy(user, id) ==
    LET r == TaskDestroyResult(user, id) IN
    /\ tasks' = r.tasks
    /\ session' = [session EXCEPT ![user] = r.flash]
    /\ UNCHANGED <<lists, nextId, nextTaskId, now, response>>
    /\ UNCHANGED clientVars

(***************************************************************************)
(* The Lists page (pages/Lists/index.tsx) in the browser of user Me.       *)
(***************************************************************************)
Me == "u1"

\* What is typed into the dialog's fields.
TypedTitles == {"B", LongTitle}

TypedDescriptions == {"D"}

\* useForm({title: '', description: ''})
EmptyForm == [title |-> "", description |-> ""]

NoToast == [show |-> FALSE, message |-> "", type |-> "success"]

NoVisit == [method |-> "none"]

\* No setTimeout is pending.
NoTimer == -1

\* editingList === null
NoList == [id |-> 0]

\* interface TaskList {id, title, description}
ListView(row) == [id |-> row.id, title |-> row.title, description |-> row.description]

PageProps(rows, flash) ==
    [lists |-> [i \in DOMAIN rows |-> ListView(rows[i])], flash |-> flash]

\* list.description || ''
OrEmpty(value) == IF value = NULL THEN "" ELSE value

ListsPageInit ==
    /\ props = PageProps(<<>>, NoFlash)
    /\ isDialogOpen = FALSE
    /\ editingList = NoList
    /\ data = EmptyForm
    /\ processing = FALSE
    /\ errors = {}
    /\ toast = NoToast
    /\ visit = NoVisit
    /\ timer = NoTimer
    /\ shown = 0
    /\ mounted = TRUE
    /\ selectedList = NoList
    /\ isTasksDialogOpen = FALSE
    /\ fetches = EmptyBag
    /\ lastClicked = NoList.id

\* AfterFlash with a visible toast that keeps its message until it is hidden.
AfterFlashKeepingVisible(current, flash) ==
    IF current.show THEN current
    ELSE IF flash.success # NULL
    THEN [show |-> TRUE, message |-> flash.success, type |-> "success"]
    ELSE IF flash.error # NULL
    THEN [show |-> TRUE, message |-> flash.error, type |-> "error"]
    ELSE current

\* showToast, called by the effect on [flash]
AfterFlash(current, flash) ==
    IF flash.success # NULL
    THEN [show |-> TRUE, message |-> flash.success, type |-> "success"]
    ELSE IF flash.error # NULL
    THEN [show |-> TRUE, message |-> flash.error, type |-> "error"]
    ELSE current

\* TimerAfter with an effect on [toast]: every change of the toast clears the
\* pending timer, and only a toast that became visible starts a new one.
TimerAfterAnyChange(before, after) ==
    IF after = before THEN timer
    ELSE IF after.show /\ ~before.show THEN ToastMs
    ELSE NoTimer

\* The effect on [toast.show] after the toast changed from before to after:
\* its cleanup clears the pending timer and its body starts one of ToastMs when
\* the toast became visible; a toast that stays visible (or hidden) does not
\* run the effect.
TimerAfter(before, after) ==
    IF after.show = before.show THEN timer
    ELSE IF after.show THEN ToastMs
    ELSE NoTimer

\* PageHeader onAddList. The dialog is modal: the page behind an open dialog
\* takes no clicks.
ClickNewList ==
    /\ mounted /\ ~isDialogOpen
    /\ isDialogOpen' = TRUE
    /\ UNCHANGED <<props, editingList, data, processing, errors, toast, visit, toastClock, serverVars, tasksPageVars, lazyVars>>

\* handleEditList
HandleEditList(list) ==
    /\ mounted /\ ~isDialogOpen
    /\ editingList' = list
    /\ data' = [title |-> list.title, description |-> OrEmpty(list.description)]
    /\ isDialogOpen' = TRUE
    /\ UNCHANGED <<props, processing, errors, toast, visit, toastClock, serverVars, tasksPageVars, lazyVars>>

\* onFormChange = listForm.setData(field, value)
TypeTitle(value) ==
    /\ mounted /\ isDialogOpen
    /\ data' = [data EXCEPT !.title = value]
    /\ UNCHANGED <<props, isDialogOpen, editingList, processing, errors, toast, visit, toastClock, serverVars, tasksPageVars, lazyVars>>

TypeDescription(value) ==
    /\ mounted /\ isDialogOpen
    /\ data' = [data EXCEPT !.description = value]
    /\ UNCHANGED <<props, isDialogOpen, editingList, processing, errors, toast, visit, toastClock, serverVars, tasksPageVars, lazyVars>>

\* closeDialogAndResetForm without setEditingList(null)
ClosedKeepingTarget ==
    [isDialogOpen |-> FALSE, data |-> EmptyForm, editingList |-> editingList]

\* closeDialogAndResetForm
Closed == [isDialogOpen |-> FALSE, data |-> EmptyForm, editingList |-> NoList]

\* The visit v once the dialog that submitted it has been closed: its
\* onSuccess callback belongs to an opening of the dialog that is over.
Detached(v) ==
    IF v.method \in {"post", "put"} THEN [v EXCEPT !.detached = TRUE] ELSE v

\* handleDialogOpenChange(false)
HandleDialogClose ==
    /\ mounted /\ isDialogOpen
    /\ isDialogOpen' = Closed.isDialogOpen
    /\ data' = Closed.data
    /\ editingList' = Closed.editingList
    /\ visit' = Detached(visit)
    /\ UNCHANGED <<props, processing, errors, toast, toastClock, serverVars, tasksPageVars, lazyVars>>

\* CanSubmit with a submit button that is never disabled.
CanSubmitWhileProcessing == isDialogOpen /\ data.title # ""

\* The submit button is disabled={isProcessing}; the title input is required.
CanSubmit == isDialogOpen /\ ~processing /\ data.title # ""

\* A visit replaces the one in flight (Inertia cancels it) and sets
\* form.processing. It carries its onSuccess callback, which is attached to
\* the dialog as it is open at the submit.
Started(method, id, body) ==
    [method |-> method, id |-> id, data |-> body, detached |-> FALSE]

\* handleFormSubmit
HandleFormSubmit ==
    /\ mounted /\ CanSubmit
    /\ visit' = IF editingList # NoList
                THEN Started("put", editingList.id, data)
                ELSE Started("post", 0, data)
    /\ processing' = TRUE
    /\ UNCHANGED <<props, isDialogOpen, editingList, data, errors, toast, toastClock, serverVars, tasksPageVars, lazyVars>>

\* handleDeleteList, confirmed
HandleDeleteList(listId) ==
    /\ mounted /\ ~isDialogOpen
    /\ visit' = Started("delete", listId, EmptyForm)
    /\ processing' = TRUE
    /\ UNCHANGED <<props, isDialogOpen, editingList, data, errors, toast, toastClock, serverVars, tasksPageVars, lazyVars>>

\* The controller method a visit of user reaches.
VisitResult(user, v) ==
    IF v.method = "post" THEN StoreResult(user, v.data)
    ELSE IF v.method = "put" THEN UpdateResult(user, v.id, v.data) @@ [nextId |-> nextId]
    ELSE DestroyResult(user, v.id) @@ [nextId |-> nextId]

\* The server handles a visit of user: the controller method, then, after a
\* redirect (to lists.index, or back with the validation errors), GET /lists,
\* which the browser requests at once and which carries the flash data.
Served(user, v) ==
    LET r == VisitResult(user, v) IN
    /\ v.method = "post" => nextId <= MaxPageLists
    /\ lists' = r.lists
    /\ nextId' = r.nextId
    /\ session' = [session EXCEPT ![user] = NoFlash]
    /\ UNCHANGED <<tasks, nextTaskId, now, response>>

\* Closes with an update whose onSuccess does not close the dialog.
ClosesCreateOnly(v, status) == status = "redirect" /\ v.method = "post"

\* Closes with the dialog closed on every response, rejected ones included.
ClosesOnAnyResponse(v, status) == v.method \in {"post", "put"}

\* onSuccess of put and post: closeDialogAndResetForm
Closes(v, status) == status = "redirect" /\ v.method \in {"post", "put"}

\* The visit in flight is served and its response arrives. A page response
\* swaps the props and runs the flash effect; a 404 is no page. onFinish
\* clears form.processing.
VisitCompletes ==
    LET r == VisitResult(Me, visit) IN
    /\ mounted /\ visit # NoVisit
    /\ Served(Me, visit)
    /\ IF r.status = "notfound"
       THEN UNCHANGED <<props, toast, timer, shown>>
       ELSE /\ \E rows \in IndexResults(Me)' : props' = PageProps(rows, r.flash)
            /\ toast' = AfterFlash(toast, r.flash)
            /\ timer' = TimerAfter(toast, toast')
            /\ shown' = IF r.flash = NoFlash THEN shown ELSE 0
    /\ isDialogOpen' = IF Closes(visit, r.status) THEN Closed.isDialogOpen ELSE isDialogOpen
    /\ data' = IF Closes(visit, r.status) THEN Closed.data ELSE data
    /\ editingList' = IF Closes(visit, r.status) THEN Closed.editingList ELSE editingList
    /\ processing' = FALSE
    /\ errors' = IF r.status = "invalid" THEN {"title"}
                 ELSE IF r.status = "redirect" THEN {}
                 ELSE errors
    /\ visit' = NoVisit
    /\ UNCHANGED <<mounted, tasksPageVars, lazyVars>>

\* The body the other tab submits: a title the dialog of this page never types.
ElsewhereInput == [title |-> "A", description |-> ""]

\* The same user changes lists from another tab, whose visit completes there.
Elsewhere(v) ==
    /\ Served(Me, v)
    /\ UNCHANGED clientVars

\* Time passes while the auto-hide timer is pending.
Delays == {1000, 2000}

Elapse(ms) ==
    /\ timer # NoTimer /\ ms < timer
    /\ timer' = timer - ms
    /\ shown' = shown + ms
    /\ UNCHANGED <<props, isDialogOpen, editingList, data, processing, errors, toast, visit,
                   mounted, serverVars, tasksPageVars, lazyVars>>

\* The rest of the pending timer's time passes and its callback runs:
\* setToast(prev => ({...prev, show: false})).
ToastTimeout ==
    /\ timer # NoTimer
    /\ toast' = [toast EXCEPT !.show = FALSE]
    /\ shown' = shown + timer
    /\ timer' = NoTimer
    /\ UNCHANGED <<props, isDialogOpen, editingList, data, processing, errors, visit,
                   mounted, serverVars, tasksPageVars, lazyVars>>

\* Unmount that leaves the pending timer running.
UnmountKeepingTimer ==
    /\ mounted
    /\ mounted' = FALSE
    /\ visit' = NoVisit
    /\ UNCHANGED <<props, isDialogOpen, editingList, data, processing, errors, toast,
                   timer, shown, serverVars, tasksPageVars, lazyVars>>

\* The user leaves the page: the component is unmounted, the cleanup of the
\* auto-hide effect clears the pending timer, and the visit in flight, if any,
\* is cancelled.
Unmount ==
    /\ mounted
    /\ mounted' = FALSE
    /\ timer' = NoTimer
    /\ visit' = NoVisit
    /\ UNCHANGED <<props, isDialogOpen, editingList, data, processing, errors, toast,
                   shown, serverVars, tasksPageVars, lazyVars>>

\* The user comes back to /lists: ListController::index renders the page and
\* the component is mounted with fresh state; the flash effect runs on mount.
OpenListsPage ==
    /\ ~mounted
    /\ \E rows \in IndexResults(Me) : props' = PageProps(rows, session[Me])
    /\ session' = [session EXCEPT ![Me] = NoFlash]
    /\ toast' = AfterFlash(NoToast, session[Me])
    /\ timer' = IF toast'.show THEN ToastMs ELSE NoTimer
    /\ shown' = 0
    /\ mounted' = TRUE
    /\ isDialogOpen' = FALSE
    /\ editingList' = NoList
    /\ data' = EmptyForm
    /\ processing' = FALSE
    /\ errors' = {}
    /\ visit' = NoVisit
    /\ selectedList' = NoList
    /\ isTasksDialogOpen' = FALSE
    /\ fetches' = EmptyBag
    /\ lastClicked' = NoList.id
    /\ UNCHANGED <<lists, nextId, tasks, nextTaskId, now, response, tasksPageVars>>

(***************************************************************************)
(* The Tasks page (Tasksindex) in the browser of user Me.                  *)
(***************************************************************************)
TypedTaskTitles == {"T", LongTitle}

\* editingTask === null
NoTask == [id |-> 0]

\* interface Task {id, title, description, is_completed, due_date, lists_id}
TaskView(row) ==
    [id |-> row.id, title |-> row.title, description |-> NULL,
     is_completed |-> row.is_completed, due_date |-> NULL, lists_id |-> row.lists_id]

\* interface Props {tasks, lists, filters, flash}
TaskPageProps(page, listRows, query, flash) ==
    [tasks |-> [page EXCEPT !.data = [i \in DOMAIN page.data |-> TaskView(page.data[i])]],
     lists |-> [i \in DOMAIN listRows |-> [id |-> listRows[i].id, title |-> listRows[i].title]],
     filters |-> [search |-> query.search, filter |-> query.filter],
     flash |-> flash]

TasksPageInit ==
    /\ taskProps = TaskPageProps(PageResult(<<>>, 1), <<>>, DefaultQuery, NoFlash)
    /\ searchTerm = DefaultQuery.search
    /\ completionFilter = DefaultQuery.filter
    /\ cancelled = {}
    /\ isOpen = FALSE
    /\ editingTask = NoTask
    /\ taskData = EmptyTaskForm
    /\ taskProcessing = FALSE
    /\ showToast = FALSE
    /\ toastMessage = ""
    /\ toastType = "success"
    /\ taskVisit = NoVisit

\* DialogTrigger "New Task": onOpenChange(true) = setIsOpen(true)
ClickNewTask ==
    /\ ~isOpen
    /\ isOpen' = TRUE
    /\ UNCHANGED <<taskProps, editingTask, taskData, taskProcessing,
                   showToast, toastMessage, toastType, taskVisit>>
    /\ UNCHANGED <<serverVars, listsPageVars, searchVars>>

\* onOpenChange(false) = setIsOpen(false)
CloseTaskDialog ==
    /\ isOpen
    /\ isOpen' = FALSE
    /\ UNCHANGED <<taskProps, editingTask, taskData, taskProcessing,
                   showToast, toastMessage, toastType, taskVisit>>
    /\ UNCHANGED <<serverVars, listsPageVars, searchVars>>

\* handleEdit
HandleEdit(task) ==
    /\ ~isOpen
    /\ editingTask' = task
    /\ taskData' = [title |-> task.title,
                    description |-> OrEmpty(task.description),
                    due_date |-> OrEmpty(task.due_date),
                    lists_id |-> task.lists_id,
                    is_completed |-> task.is_completed]
    /\ isOpen' = TRUE
    /\ UNCHANGED <<taskProps, taskProcessing, showToast, toastMessage, toastType, taskVisit>>
    /\ UNCHANGED <<serverVars, listsPageVars, searchVars>>

\* setData(field, value)
SetTaskData(field, value) ==
    /\ isOpen
    /\ taskData' = [taskData EXCEPT ![field] = value]
    /\ UNCHANGED <<taskProps, isOpen, editingTask, taskProcessing,
                   showToast, toastMessage, toastType, taskVisit>>
    /\ UNCHANGED <<serverVars, listsPageVars, searchVars>>

\* The submit button is disabled={processing}; the title input is required.
CanSubmitTask == isOpen /\ ~taskProcessing /\ taskData.title # ""

\* handleSubmit
HandleSubmit ==
    /\ CanSubmitTask
    /\ taskVisit' = IF editingTask # NoTask
                    THEN Started("put", editingTask.id, taskData)
                    ELSE Started("post", 0, taskData)
    /\ taskProcessing' = TRUE
    /\ UNCHANGED <<taskProps, isOpen, editingTask, taskData, showToast, toastMessage, toastType>>
    /\ UNCHANGED <<serverVars, listsPageVars, searchVars>>

\* handleDelete
HandleDelete(taskId) ==
    /\ ~isOpen
    /\ taskVisit' = Started("delete", taskId, EmptyTaskForm)
    /\ taskProcessing' = TRUE
    /\ UNCHANGED <<taskProps, isOpen, editingTask, taskData, showToast, toastMessage, toastType>>
    /\ UNCHANGED <<serverVars, listsPageVars, searchVars>>

\* The controller method a task visit of user reaches.
TaskVisitResult(user, v) ==
    IF v.method = "post" THEN TaskStoreResult(user, v.data)
    ELSE IF v.method = "put" THEN TaskUpdateResult(user, v.id, v.data)
    ELSE TaskDestroyResult(user, v.id)

\* The task visit in flight is served (the controller method, then the
\* redirect's GET /tasks) and its response arrives. onSuccess of put:
\* setIsOpen(false), reset(), setEditingTask(null); of post: setIsOpen(false),
\* reset().
TaskVisitCompletes ==
    LET r == TaskVisitResult(Me, taskVisit)
        ok == r.status = "redirect"
        submitted == taskVisit.method \in {"post", "put"}
    IN
    /\ taskVisit.method \in {"post", "put", "delete"}
    /\ taskVisit.method = "post" => nextTaskId <= MaxPageTasks
    /\ tasks' = r.tasks
    /\ nextTaskId' = r.nextTaskId
    /\ session' = [session EXCEPT ![Me] = NoFlash]
    /\ UNCHANGED <<lists, nextId, now, response>>
    /\ IF r.status = "notfound"
       THEN UNCHANGED <<taskProps, showToast, toastMessage, toastType>>
       ELSE /\ \E page \in TaskIndexResults(Me, DefaultQuery)', listRows \in IndexResults(Me) :
                taskProps' = TaskPageProps(page, listRows, DefaultQuery, r.flash)
            /\ showToast' = (r.flash # NoFlash \/ showToast)
            /\ toastMessage' = IF r.flash.success # NULL THEN r.flash.success
                               ELSE IF r.flash.error # NULL THEN r.flash.error
                               ELSE toastMessage
            /\ toastType' = IF r.flash.success # NULL THEN "success"
                            ELSE IF r.flash.error # NULL THEN "error"
                            ELSE toastType
    /\ isOpen' = IF ok /\ submitted THEN FALSE ELSE isOpen
    /\ taskData' = IF ok /\ submitted THEN EmptyTaskForm ELSE taskData
    /\ editingTask' = IF ok /\ taskVisit.method = "put" THEN NoTask ELSE editingTask
    /\ taskProcessing' = FALSE
    /\ taskVisit' = NoVisit
    /\ UNCHANGED <<listsPageVars, searchVars>>

\* A visit to /tasks renders the page anew: the component is mounted with
\* fresh state and the props of GET /tasks.
OpenTasksPage ==
    /\ taskVisit = NoVisit /\ ~isOpen
    /\ \E page \in TaskIndexResults(Me, DefaultQuery), listRows \in IndexResults(Me) :
           taskProps' = TaskPageProps(page, listRows, DefaultQuery, session[Me])
    /\ searchTerm' = DefaultQuery.search
    /\ completionFilter' = DefaultQuery.filter
    /\ cancelled' = {}
    /\ showToast' = (session[Me] # NoFlash)
    /\ toastMessage' = IF session[Me].success # NULL THEN session[Me].success ELSE ""
    /\ toastType' = "success"
    /\ session' = [session EXCEPT ![Me] = NoFlash]
    /\ isOpen' = FALSE
    /\ editingTask' = NoTask
    /\ taskData' = EmptyTaskForm
    /\ taskProcessing' = FALSE
    /\ taskVisit' = NoVisit
    /\ UNCHANGED <<lists, nextId, tasks, nextTaskId, now, response>>
    /\ UNCHANGED listsPageVars

\* The auto-hide timer of the Tasks page toast fires.
TaskToastTimeout ==
    /\ showToast
    /\ showToast' = FALSE
    /\ UNCHANGED <<taskProps, isOpen, editingTask, taskData, taskProcessing,
                   toastMessage, toastType, taskVisit>>
    /\ UNCHANGED <<serverVars, listsPageVars, searchVars>>

(***************************************************************************)
(* Search, status filter and pagination of the Tasks page.                 *)
(***************************************************************************)
\* What is typed into the search box.
TypedSearches == {"t", "x"}

\* onChange of the search box: setSearchTerm
TypeSearch(term) ==
    /\ searchTerm' = term
    /\ UNCHANGED <<taskProps, isOpen, editingTask, taskData, taskProcessing,
                   showToast, toastMessage, toastType, taskVisit, completionFilter, cancelled>>
    /\ UNCHANGED <<serverVars, listsPageVars>>

\* router.get('/tasks', query, {preserveState: true, preserveScroll: true}):
\* the visit replaces the list request in flight, which Inertia cancels while
\* its response may still be on its way. The requests of the dialog are not
\* mixed with list requests here.
RouterGet(query) ==
    /\ taskVisit.method \in {"none", "get"}
    /\ taskVisit.method = "get" => Cardinality(cancelled \cup {taskVisit}) <= MaxStale
    /\ cancelled' = IF taskVisit.method = "get" THEN cancelled \cup {taskVisit} ELSE cancelled
    /\ taskVisit' = [method |-> "get", query |-> query]
    /\ UNCHANGED <<taskProps, isOpen, editingTask, taskData, taskProcessing,
                   showToast, toastMessage, toastType, searchTerm>>
    /\ UNCHANGED <<serverVars, listsPageVars>>

\* handleSearch
HandleSearch ==
    /\ RouterGet([search |-> searchTerm, filter |-> completionFilter])
    /\ UNCHANGED completionFilter

\* handleFilterChange
HandleFilterChange(value) ==
    /\ completionFilter' = value
    /\ RouterGet([search |-> searchTerm, filter |-> value])

\* The pages the enabled pagination controls ask for: previous (disabled on
\* page 1), one button per page, next (disabled on the last page).
PageControls ==
    LET current == taskProps.tasks.current_page
        last == taskProps.tasks.last_page
    IN  (IF current = 1 THEN {} ELSE {current - 1})
            \cup 1..last
            \cup (IF current = last THEN {} ELSE {current + 1})

\* handlePageChange
HandlePageChange(page) ==
    /\ RouterGet([page |-> page, search |-> searchTerm, filter |-> completionFilter])
    /\ UNCHANGED completionFilter

\* The page props a response to the list request query carries.
ListResponses(query, flash) ==
    {TaskPageProps(page, listRows, query, flash) :
        page \in TaskIndexResults(Me, query), listRows \in IndexResults(Me)}

\* The response of the list request in flight arrives: the props are
\* replaced, the component state is preserved, the flash effect runs.
ListVisitCompletes ==
    /\ taskVisit.method = "get"
    /\ taskProps' \in ListResponses(taskVisit.query, session[Me])
    /\ session' = [session EXCEPT ![Me] = NoFlash]
    /\ showToast' = (session[Me] # NoFlash \/ showToast)
    /\ toastMessage' = IF session[Me].success # NULL THEN session[Me].success
                       ELSE IF session[Me].error # NULL THEN session[Me].error
                       ELSE toastMessage
    /\ toastType' = IF session[Me].success # NULL THEN "success"
                    ELSE IF session[Me].error # NULL THEN "error"
                    ELSE toastType
    /\ taskVisit' = NoVisit
    /\ UNCHANGED <<isOpen, editingTask, taskData, taskProcessing, searchVars>>
    /\ UNCHANGED <<lists, nextId, tasks, nextTaskId, now, response, listsPageVars>>

\* CancelledResponseArrives with the response of the cancelled visit rendered.
CancelledResponseShown(v) ==
    /\ v \in cancelled
    /\ cancelled' = cancelled \ {v}
    /\ taskProps' \in ListResponses(v.query, session[Me])
    /\ session' = [session EXCEPT ![Me] = NoFlash]
    /\ UNCHANGED <<isOpen, editingTask, taskData, taskProcessing,
                   showToast, toastMessage, toastType, taskVisit, searchTerm, completionFilter>>
    /\ UNCHANGED <<lists, nextId, tasks, nextTaskId, now, response, listsPageVars>>

\* The server has answered a cancelled list request: Inertia drops the
\* response of a visit it cancelled, so the page does not change.
CancelledResponseArrives(v) ==
    /\ v \in cancelled
    /\ cancelled' = cancelled \ {v}
    /\ session' = [session EXCEPT ![Me] = NoFlash]
    /\ UNCHANGED <<taskProps, isOpen, editingTask, taskData, taskProcessing,
                   showToast, toastMessage, toastType, taskVisit, searchTerm, completionFilter>>
    /\ UNCHANGED <<lists, nextId, tasks, nextTaskId, now, response, listsPageVars>>

(***************************************************************************)
(* The tasks dialog of the Lists page: a click on a list card selects the  *)
(* list and fetches its tasks from GET /lists/{id}/tasks.                  *)
(***************************************************************************)
\* showToast('Failed to load tasks', 'error')
FetchFailedToast == [show |-> TRUE, message |-> "Failed to load tasks", type |-> "error"]

\* handleListClick up to its await: setSelectedList(list), and, as no list of
\* the page props carries tasks, fetch(`/lists/${list.id}/tasks`). Both
\* dialogs are modal: the cards behind an open dialog take no clicks.
HandleListClick(list) ==
    /\ mounted /\ ~isDialogOpen /\ ~isTasksDialogOpen
    /\ BagCardinality(fetches) < MaxFetches
    /\ selectedList' = list
    /\ lastClicked' = list.id
    /\ fetches' = fetches (+) SetToBag({list})
    /\ UNCHANGED isTasksDialogOpen
    /\ UNCHANGED <<props, isDialogOpen, editingList, data, processing, errors, toast, visit,
                   toastClock, serverVars, tasksPageVars>>

\* The tasks that GET /lists/{id}/tasks answers with, in every order.
ListTasksResults(id) ==
    {[i \in DOMAIN order |-> TaskView(TaskRow(order[i]))] : order \in Orderings(TasksOf(id))}

\* handleListClick after its await, the response being OK:
\* setSelectedList({...list, tasks}), then setIsTasksDialogOpen(true).
FetchSucceeds(list) ==
    /\ mounted /\ BagIn(list, fetches)
    /\ Bound(list.id)
    /\ fetches' = fetches (-) SetToBag({list})
    /\ \E found \in ListTasksResults(list.id) : selectedList' = list @@ [tasks |-> found]
    /\ isTasksDialogOpen' = TRUE
    /\ UNCHANGED lastClicked
    /\ UNCHANGED <<props, isDialogOpen, editingList, data, processing, errors, toast, visit,
                   toastClock, serverVars, tasksPageVars>>

\* FetchFails with the rejection not caught: the handler ends at the throw.
FetchFailsUncaught(list) ==
    /\ mounted /\ BagIn(list, fetches)
    /\ fetches' = fetches (-) SetToBag({list})
    /\ UNCHANGED <<selectedList, lastClicked, isTasksDialogOpen>>
    /\ UNCHANGED <<props, isDialogOpen, editingList, data, processing, errors, toast, visit,
                   toastClock, serverVars, tasksPageVars>>

\* handleListClick after its await, the fetch rejected or the response not
\* OK: the catch block shows the error toast, then setIsTasksDialogOpen(true).
FetchFails(list) ==
    /\ mounted /\ BagIn(list, fetches)
    /\ fetches' = fetches (-) SetToBag({list})
    /\ toast' = FetchFailedToast
    /\ timer' = TimerAfter(toast, toast')
    /\ shown' = 0
    /\ isTasksDialogOpen' = TRUE
    /\ UNCHANGED <<selectedList, lastClicked, mounted>>
    /\ UNCHANGED <<props, isDialogOpen, editingList, data, processing, errors, visit,
                   serverVars, tasksPageVars>>

\* onOpenChange={setIsTasksDialogOpen}, closing the tasks dialog
CloseTasksDialog ==
    /\ mounted /\ isTasksDialogOpen
    /\ isTasksDialogOpen' = FALSE
    /\ UNCHANGED <<selectedList, fetches, lastClicked>>
    /\ UNCHANGED <<props, isDialogOpen, editingList, data, processing, errors, toast, visit,
                   toastClock, serverVars, tasksPageVars>>

ListIds == 1..MaxLists

PageListIds == 1..MaxPageLists

ServerInit ==
    /\ lists = <<>>
    /\ nextId = 1
    /\ tasks = <<>>
    /\ nextTaskId = 1
    /\ now = 0
    /\ session = [u \in Users |-> NoFlash]
    /\ response = Rendered("none", NoFlash)

Init == ServerInit /\ ListsPageInit /\ TasksPageInit

vars == <<serverVars, clientVars>>

\* Lists are created, updated and deleted.
Mutate ==
    \/ \E u \in Users, input \in Inputs : ListStore(u, input)
    \/ \E u \in Users, id \in ListIds, input \in Inputs : ListUpdate(u, id, input)
    \/ \E u \in Users, id \in ListIds, p \in DeletePolicies : ListDestroy(u, id, p)

\* The list requests alone.
NextCrud ==
    \/ Mutate
    \/ \E u \in Users : ListIndex(u)

SpecCrud == Init /\ [][NextCrud]_vars

\* Lists and the tasks stored in them.
NextScope ==
    \/ Mutate
    \/ \E u \in Users, id \in ListIds, c \in BOOLEAN : TaskStore(u, id, c)

SpecScope == Init /\ [][NextScope]_vars

\* Every request, while time passes.
Next ==
    \/ NextCrud
    \/ \E u \in Users, id \in ListIds, c \in BOOLEAN : TaskStore(u, id, c)
    \/ \E u \in Users : Dashboard(u)
    \/ Tick

Spec == Init /\ [][Next]_vars

\* The Lists page of Me, while Me changes lists elsewhere too.
NextListsPage ==
    \/ ClickNewList
    \/ \E i \in DOMAIN props.lists : HandleEditList(props.lists[i])
    \/ \E title \in TypedTitles : TypeTitle(title)
    \/ \E description \in TypedDescriptions : TypeDescription(description)
    \/ HandleDialogClose
    \/ HandleFormSubmit
    \/ \E i \in DOMAIN props.lists : HandleDeleteList(props.lists[i].id)
    \/ VisitCompletes
    \/ ToastTimeout
    \/ Elsewhere(Started("post", 0, ElsewhereInput))
    \/ \E id \in PageListIds : Elsewhere(Started("put", id, ElsewhereInput))
    \/ \E id \in PageListIds : Elsewhere(Started("delete", id, EmptyForm))

SpecListsPage == Init /\ [][NextListsPage]_vars

\* The Lists page of Me with the time of its toast: the handlers of the
\* mounted component, the timer, and leaving and coming back to the page.
NextToast ==
    \/ ClickNewList
    \/ \E i \in DOMAIN props.lists : HandleEditList(props.lists[i])
    \/ \E title \in TypedTitles : TypeTitle(title)
    \/ HandleDialogClose
    \/ HandleFormSubmit
    \/ \E i \in DOMAIN props.lists : HandleDeleteList(props.lists[i].id)
    \/ VisitCompletes
    \/ \E ms \in Delays : Elapse(ms)
    \/ ToastTimeout
    \/ Unmount
    \/ OpenListsPage

SpecToast == Init /\ [][NextToast]_vars

\* setTimeout runs its callback once the delay has passed.
FairSpecToast == SpecToast /\ WF_vars(ToastTimeout)

\* The Tasks page of Me, who also creates lists.
NextTasksPage ==
    \/ Elsewhere(Started("post", 0, ElsewhereInput))
    \/ OpenTasksPage
    \/ ClickNewTask
    \/ CloseTaskDialog
    \/ \E i \in DOMAIN taskProps.tasks.data : HandleEdit(taskProps.tasks.data[i])
    \/ \E title \in TypedTaskTitles : SetTaskData("title", title)
    \/ \E i \in DOMAIN taskProps.lists : SetTaskData("lists_id", taskProps.lists[i].id)
    \/ \E checked \in BOOLEAN : SetTaskData("is_completed", checked)
    \/ HandleSubmit
    \/ \E i \in DOMAIN taskProps.tasks.data : HandleDelete(taskProps.tasks.data[i].id)
    \/ TaskVisitCompletes
    \/ TaskToastTimeout

SpecTasksPage == Init /\ [][NextTasksPage]_vars

\* Me has one list with MaxListedTasks tasks, created a second apart, every
\* second of them completed, and has just opened the Tasks page.
InitTaskList ==
    /\ lists = <<[title |-> "A", description |-> NULL, user_id |-> Me,
                  created_at |-> 0, updated_at |-> 0]>>
    /\ nextId = 2
    /\ tasks = [t \in 1..MaxListedTasks |->
                    [title |-> "T", lists_id |-> 1, is_completed |-> (t % 2 = 0),
                     created_at |-> t, updated_at |-> t]]
    /\ nextTaskId = MaxListedTasks + 1
    /\ now = MaxListedTasks
    /\ session = [u \in Users |-> NoFlash]
    /\ response = Rendered("none", NoFlash)
    /\ ListsPageInit
    /\ taskProps \in ListResponses(DefaultQuery, NoFlash)
    /\ isOpen = FALSE
    /\ editingTask = NoTask
    /\ taskData = EmptyTaskForm
    /\ taskProcessing = FALSE
    /\ showToast = FALSE
    /\ toastMessage = ""
    /\ toastType = "success"
    /\ taskVisit = NoVisit
    /\ searchTerm = DefaultQuery.search
    /\ completionFilter = DefaultQuery.filter
    /\ cancelled = {}

\* The search box, the status filter and the pagination controls of the Tasks
\* page of Me.
NextTaskList ==
    \/ \E term \in TypedSearches : TypeSearch(term)
    \/ HandleSearch
    \/ \E value \in Statuses : HandleFilterChange(value)
    \/ \E page \in PageControls : HandlePageChange(page)
    \/ ListVisitCompletes
    \/ \E v \in cancelled : CancelledResponseArrives(v)

SpecTaskList == InitTaskList /\ [][NextTaskList]_vars

\* The tasks of Me are completed, reopened and deleted while the dashboards
\* and the lists are rendered.
NextTasks ==
    \/ \E id \in 1..MaxListedTasks, listId \in ListIds, c \in BOOLEAN :
          TaskUpdate(Me, id, listId, c)
    \/ \E id \in 1..MaxListedTasks : TaskDestroy(Me, id)
    \/ \E u \in Users : Dashboard(u)
    \/ \E u \in Users : ListIndex(u)

SpecTasks == InitTaskList /\ [][NextTasks]_vars

\* Me has MaxLists lists, each holding one task, and has just opened the
\* Lists page.
InitTasksDialog ==
    /\ lists = [id \in 1..MaxLists |->
                    [title |-> "A", description |-> NULL, user_id |-> Me,
                     created_at |-> 0, updated_at |-> 0]]
    /\ nextId = MaxLists + 1
    /\ tasks = [t \in 1..MaxLists |->
                    [title |-> "T", lists_id |-> t, is_completed |-> FALSE,
                     created_at |-> 0, updated_at |-> 0]]
    /\ nextTaskId = MaxLists + 1
    /\ now = 0
    /\ session = [u \in Users |-> NoFlash]
    /\ response = Rendered("none", NoFlash)
    /\ \E rows \in IndexResults(Me) : props = PageProps(rows, NoFlash)
    /\ isDialogOpen = FALSE
    /\ editingList = NoList
    /\ data = EmptyForm
    /\ processing = FALSE
    /\ errors = {}
    /\ toast = NoToast
    /\ visit = NoVisit
    /\ timer = NoTimer
    /\ shown = 0
    /\ mounted = TRUE
    /\ selectedList = NoList
    /\ isTasksDialogOpen = FALSE
    /\ fetches = EmptyBag
    /\ lastClicked = NoList.id
    /\ TasksPageInit

\* The list cards and the tasks dialog of the Lists page of Me, whose lists
\* may be deleted from another tab meanwhile.
NextTasksDialog ==
    \/ \E i \in DOMAIN props.lists : HandleListClick(props.lists[i])
    \/ \E list \in BagToSet(fetches) : FetchSucceeds(list)
    \/ \E list \in BagToSet(fetches) : FetchFails(list)
    \/ CloseTasksDialog
    \/ ToastTimeout
    \/ \E id \in ListIds : Elsewhere(Started("delete", id, EmptyForm))

SpecTasksDialog == InitTasksDialog /\ [][NextTasksDialog]_vars

(***************************************************************************)
(* Claims about the request contract.                                      *)
(***************************************************************************)

\* C1: a PUT /lists/{id} by a user who does not own list {id} yields NotFound
\* and leaves the list's title, description and owner unchanged.
C1_ForeignUpdateNotFound ==
    [][\A u \in Users, id \in ListIds, input \in Inputs :
          (Bound(id) /\ lists[id].user_id # u /\ ListUpdate(u, id, input))
              => /\ UpdateResult(u, id, input).status = "notfound"
                 /\ lists'[id] = lists[id]]_vars

\* C2: a DELETE /lists/{id} by a user who does not own list {id} yields
\* NotFound and the list still exists afterwards.
C2_ForeignDestroyNotFound ==
    [][\A u \in Users, id \in ListIds, p \in DeletePolicies :
          (Bound(id) /\ lists[id].user_id # u /\ ListDestroy(u, id, p))
              => /\ DestroyResult(u, id).status = "notfound"
                 /\ id \in DOMAIN lists']_vars

\* C3: whatever was created, updated and deleted by whom, every list of
\* GET /lists and every list, task and statistic of the dashboard belongs to
\* the requesting user, a task through its list.
OwnsTask(user, t) ==
    /\ tasks[t].lists_id \in DOMAIN lists
    /\ lists[tasks[t].lists_id].user_id = user

C3_RenderedBelongsToCaller ==
    \A u \in Users :
        /\ \A rows \in IndexResults(u) : \A i \in DOMAIN rows :
               rows[i].id \in DOMAIN lists /\ lists[rows[i].id].user_id = u
        /\ \A listRows \in DashboardLists(u), taskRows \in DashboardTasks(u) :
               /\ \A i \in DOMAIN listRows :
                      listRows[i].id \in DOMAIN lists /\ lists[listRows[i].id].user_id = u
               /\ \A i \in DOMAIN taskRows : OwnsTask(u, taskRows[i].id)
               /\ Stats(listRows, taskRows).totalLists
                      = Cardinality({id \in DOMAIN lists : lists[id].user_id = u})
               /\ Stats(listRows, taskRows).totalTasks
                      = Cardinality({t \in DOMAIN tasks : OwnsTask(u, t)})
               /\ Stats(listRows, taskRows).completedTasks
                      = Cardinality({t \in DOMAIN tasks : OwnsTask(u, t) /\ tasks[t].is_completed})
               /\ Stats(listRows, taskRows).pendingTasks
                      = Cardinality({t \in DOMAIN tasks : OwnsTask(u, t) /\ ~tasks[t].is_completed})

\* Both users own a list, u2's holds a task, and u1's dashboard shows a list
\* and no task.
C3_Witness ==
    /\ \E t \in DOMAIN tasks : OwnsTask("u2", t)
    /\ \E listRows \in DashboardLists("u1") : Len(listRows) > 0
    /\ DashboardTasks("u1") = {<<>>}
    /\ \E rows \in IndexResults("u1") : Len(rows) > 0

\* C4: GET /lists returns the caller's lists sorted by updated_at descending,
\* then created_at descending.
C4_IndexSorted ==
    \A u \in Users : \A rows \in IndexResults(u) : IsSorted(rows)

\* C5: each successful create, update or delete of a list sets exactly one
\* message, success or error; the next render delivers what the session holds
\* and clears it, so a render that follows without a mutation carries none.
ExactlyOne(flash) == (flash.success # NULL) # (flash.error # NULL)

C6_SubmitDisabledInFlight ==
    visit # NoVisit => (processing /\ ~CanSubmit)

\* The dialog is open and its create is in flight.
C6_Witness ==
    isDialogOpen /\ visit # NoVisit /\ visit.method = "post" /\ data.title # ""

\* C8: on the Lists page a closed dialog is Idle, from whatever state it was
\* closed: no edit target, title and description at their empty defaults.
C8_ClosedIsIdle ==
    ~isDialogOpen => (editingList = NoList /\ data = EmptyForm)

\* The dialog was closed while the update it submitted was in flight.
C8_Witness ==
    ~isDialogOpen /\ visit # NoVisit /\ visit.method = "put" /\ visit.data # EmptyForm

\* C9: opening the edit dialog copies the list's editable fields into the
\* form; while the dialog stays open the form changes by typing only, whatever
\* happens to the list elsewhere; and the save of a list that still exists
\* writes the form's values over it, without a version check.
C9_SnapshotLastWriteWins ==
    [][/\ \A i \in DOMAIN props.lists :
            HandleEditList(props.lists[i])
                => data' = [title |-> props.lists[i].title,
                            description |-> OrEmpty(props.lists[i].description)]
       /\ (isDialogOpen /\ isDialogOpen' /\ data' # data)
            => \/ \E title \in TypedTitles : TypeTitle(title)
               \/ \E description \in TypedDescriptions : TypeDescription(description)
       /\ (VisitCompletes /\ visit.method = "put" /\ Bound(visit.id) /\ Valid(visit.data))
            => /\ VisitResult(Me, visit).status = "redirect"
               /\ lists'[visit.id].title = visit.data.title
               /\ OrEmpty(lists'[visit.id].description) = visit.data.description
      ]_vars

\* The save of an edit is in flight for a list whose title was changed
\* elsewhere after the dialog was opened.
C9_Witness ==
    /\ isDialogOpen /\ editingList # NoList
    /\ visit # NoVisit /\ visit.method = "put" /\ Valid(visit.data)
    /\ Bound(visit.id)
    /\ lists[visit.id].title # editingList.title
    /\ lists[visit.id].title # visit.data.title

\* C10: a create or update rejected by the validation creates and changes no
\* list, leaves the dialog, its edit target and its form as they are, enables
\* the submit control again and raises no toast.
C10_RejectedChangesNothing ==
    [][(VisitCompletes /\ VisitResult(Me, visit).status = "invalid")
          => /\ lists' = lists /\ nextId' = nextId
             /\ isDialogOpen' = isDialogOpen
             /\ editingList' = editingList
             /\ data' = data
             /\ ~processing'
             /\ toast' = toast
             /\ errors' = {"title"}]_vars

\* An update with an oversized title was rejected: the dialog is still
\* editing that list with the oversized title in the form, and the submit
\* control is enabled.
C10_Witness ==
    /\ errors = {"title"} /\ visit = NoVisit
    /\ isDialogOpen /\ editingList # NoList /\ data.title = LongTitle
    /\ CanSubmit
    /\ ~toast.show

Deleted == {id \in 1..(nextId - 1) : ~Bound(id)}

\* C19: a deleted list is in no listing, an update or delete of its id is
\* NotFound and changes no list, the save of an edit dialog that was opened
\* before the deletion included, and no request creates a list under its id
\* again.
C19_DeletedStaysGone ==
    /\ [](/\ \A u \in Users : \A rows \in IndexResults(u) \cup DashboardLists(u) :
               \A i \in DOMAIN rows : rows[i].id \notin Deleted
          /\ \A id \in Deleted :
               /\ \A u \in Users, input \in Inputs :
                     /\ UpdateResult(u, id, input).status = "notfound"
                     /\ UpdateResult(u, id, input).lists = lists
               /\ \A u \in Users :
                     /\ DestroyResult(u, id).status = "notfound"
                     /\ DestroyResult(u, id).lists = lists)
    /\ [][\A id \in Deleted :
             /\ (VisitCompletes /\ visit.method \in {"put", "delete"} /\ visit.id = id)
                   => (lists' = lists /\ props' = props)
             /\ id \notin DOMAIN lists'
         ]_vars

\* The save of an edit dialog is in flight for a list that was deleted after
\* the dialog was opened.
C19_Witness ==
    /\ isDialogOpen /\ editingList # NoList
    /\ visit # NoVisit /\ visit.method = "put" /\ visit.id = editingList.id
    /\ visit.id \in Deleted

\* C20: a mutation that ends in NotFound sets the error message, and the
\* response that follows shows it as an error toast.
C20_NotFoundShowsErrorToast ==
    [][(VisitCompletes /\ VisitResult(Me, visit).status = "notfound")
          => /\ VisitResult(Me, visit).flash.error # NULL
             /\ toast'.show /\ toast'.type = "error"]_vars

(***************************************************************************)
(* Claims about the toast of the Lists page.                               *)
(***************************************************************************)

\* C12: whenever the auto-dismiss timer hides the toast, the message it hides,
\* a message that replaced a visible toast included, has been displayed for
\* the full ToastMs.
C12_EveryMessageShownFullInterval ==
    [][ToastTimeout => shown' = ToastMs]_vars

\* C13: a visible toast has never been displayed for more than ToastMs since
\* its timer was started, and while the component stays mounted every visible
\* toast is eventually hidden.
C13_ToastAlwaysDismissed ==
    /\ [](mounted /\ toast.show => (timer # NoTimer /\ timer <= ToastMs /\ shown <= ToastMs))
    /\ ((mounted /\ toast.show) ~> (~toast.show \/ ~mounted))

\* A toast is visible and part of its interval has passed.
C13_Witness ==
    mounted /\ toast.show /\ timer # NoTimer /\ timer < ToastMs /\ shown > 0

\* The flash data the response of a visit carries to the page.
ArrivingFlash ==
    IF VisitResult(Me, visit).status = "notfound" THEN NoFlash
    ELSE VisitResult(Me, visit).flash

\* C14: a message that arrives becomes the text and type of the one toast,
\* visible or not before; the text and type change, and a hidden toast becomes
\* visible, only in the step in which a message arrives; and the timer hides
\* the toast without showing any other message.
C14_LastMessageWins ==
    [][/\ (VisitCompletes /\ ArrivingFlash.success # NULL)
            => toast' = [show |-> TRUE, message |-> ArrivingFlash.success, type |-> "success"]
       /\ (VisitCompletes /\ ArrivingFlash.success = NULL /\ ArrivingFlash.error # NULL)
            => toast' = [show |-> TRUE, message |-> ArrivingFlash.error, type |-> "error"]
       /\ (mounted /\ mounted' /\ toast' # toast /\ toast'.show)
            => (VisitCompletes /\ ArrivingFlash # NoFlash)
       /\ ToastTimeout
            => (~toast'.show /\ toast'.message = toast.message /\ toast'.type = toast.type)
      ]_vars

\* The message of a deletion has just replaced an earlier message whose toast
\* was still visible, part of its interval gone.
C14_Witness ==
    /\ mounted /\ toast.show /\ toast.message = "List Deleted Successfully"
    /\ shown = 0 /\ timer # NoTimer /\ timer < ToastMs

\* C15: once the component is torn down no timer is pending, so its callback
\* cannot run, and the toast state does not change until the page is opened
\* again.
C15_TimerCancelledOnTeardown ==
    [][~mounted => (timer = NoTimer /\ ~ENABLED ToastTimeout /\ (~mounted' => toast' = toast))]_vars

\* The component was torn down while its toast was visible, before ToastMs
\* had passed.
C15_Witness ==
    ~mounted /\ toast.show /\ shown < ToastMs /\ timer = NoTimer

(***************************************************************************)
(* Claims about the Tasks page.                                            *)
(***************************************************************************)

\* C16: a search submit and a status selection issue a list request that
\* carries the search text, the status and the current page, and the response
\* of a list request replaces the displayed page and filters.
C16_SearchAndFilterCarryTriple ==
    [][/\ HandleSearch
            => taskVisit'.query = [search |-> searchTerm,
                                   filter |-> completionFilter,
                                   page |-> taskProps.tasks.current_page]
       /\ \A value \in Statuses :
            HandleFilterChange(value)
                => taskVisit'.query = [search |-> searchTerm,
                                       filter |-> value,
                                       page |-> taskProps.tasks.current_page]
       /\ ListVisitCompletes => taskProps' \in ListResponses(taskVisit.query, session[Me])
      ]_vars

\* C17: a page control asks for the displayed search and status with a page
\* between 1 and the displayed last_page; previous is disabled on page 1 and
\* next on the last page.
C17_PageNavigationChangesPageOnly ==
    [][/\ \A page \in 0..(MaxListedTasks + 2) :
            HandlePageChange(page)
                => /\ taskVisit'.query = [page |-> page,
                                          search |-> taskProps.filters.search,
                                          filter |-> taskProps.filters.filter]
                   /\ page \in 1..taskProps.tasks.last_page
       /\ taskProps.tasks.current_page = 1
            => (taskProps.tasks.current_page - 1) \notin PageControls
       /\ taskProps.tasks.current_page = taskProps.tasks.last_page
            => (taskProps.tasks.current_page + 1) \notin PageControls
      ]_vars

\* C18: a list request issued while another is in flight cancels it; the
\* response of a cancelled request changes nothing on the page whenever it
\* arrives, and the response of the request in flight, the latest issued, is
\* what the page displays.
C18_LaterRequestWins ==
    [][/\ \A v \in cancelled : CancelledResponseArrives(v) => taskProps' = taskProps
       /\ (/\ taskVisit.method = "get"
           /\ \/ HandleSearch
              \/ \E value \in Statuses : HandleFilterChange(value)
              \/ \E page \in PageControls : HandlePageChange(page))
            => (taskVisit \in cancelled' /\ taskVisit'.method = "get")
       /\ ListVisitCompletes => taskProps' \in ListResponses(taskVisit.query, session[Me])
       /\ taskProps' # taskProps => ListVisitCompletes
      ]_vars

\* The response of the later request is displayed while the response of the
\* earlier one, for another search or status, is still on its way.
C18_Witness ==
    /\ taskVisit = NoVisit
    /\ \E v \in cancelled :
          [search |-> v.query.search, filter |-> v.query.filter] # taskProps.filters

\* C7: on the Tasks page a closed dialog is Idle, from whatever state it was
\* closed: no edit target and the form at its empty defaults, so that the
\* next opening through New Task creates a task.
C7_TaskDialogClosedIsIdle ==
    ~isOpen => (editingTask = NoTask /\ taskData = EmptyTaskForm)

(***************************************************************************)
(* Claims about the stored lists and tasks.                                *)
(***************************************************************************)

\* C25: a successful POST /lists adds one list under an id no list has had,
\* with the submitted title and description and the caller as owner, changes
\* no other list and no task, and sets the success message.
C25_StoreAddsExactlyOne ==
    [][\A u \in Users, input \in Inputs :
          (ListStore(u, input) /\ StoreResult(u, input).status = "redirect")
              => /\ nextId \notin DOMAIN lists
                 /\ \A id \in DOMAIN lists : id < nextId
                 /\ DOMAIN lists' = DOMAIN lists \cup {nextId}
                 /\ nextId' = nextId + 1
                 /\ lists'[nextId].title = input.title
                 /\ OrEmpty(lists'[nextId].description) = input.description
                 /\ lists'[nextId].user_id = u
                 /\ \A id \in DOMAIN lists : lists'[id] = lists[id]
                 /\ tasks' = tasks
                 /\ session'[u].success = "List Created Successfully"
                 /\ session'[u].error = NULL]_vars

\* u2 has just created list 2 with a title and a description, while list 1 of
\* u1 holds a task.
C25_Witness ==
    /\ DOMAIN lists = {1, 2}
    /\ lists[2].user_id = "u2" /\ lists[2].title = "B" /\ lists[2].description = "D"
    /\ lists[1].user_id = "u1"
    /\ \E t \in DOMAIN tasks : tasks[t].lists_id = 1
    /\ session["u2"].success = "List Created Successfully"

\* C26: no request changes the owner of a list that exists before and after it.
C26_OwnerNeverChanges ==
    [][\A id \in DOMAIN lists \cap DOMAIN lists' :
          lists'[id].user_id = lists[id].user_id]_vars

\* C24: after every request each stored task references an existing list, the
\* list of a new task is owned by the user who created the task, and the owner
\* of the list a task references stays who it was.
C24_TaskReferencesOwnedList ==
    [][\A t \in DOMAIN tasks' :
          /\ tasks'[t].lists_id \in DOMAIN lists'
          /\ (t \in DOMAIN tasks /\ tasks[t].lists_id \in DOMAIN lists)
                => lists'[tasks'[t].lists_id].user_id = lists[tasks[t].lists_id].user_id
          /\ t \notin DOMAIN tasks
                => \E u \in Users, c \in BOOLEAN :
                      /\ TaskStore(u, tasks'[t].lists_id, c)
                      /\ lists'[tasks'[t].lists_id].user_id = u
      ]_vars

\* The searches of the model: none, one that matches the titles, one that
\* matches nothing.
Searches == {DefaultQuery.search} \cup TypedSearches

\* C22: every task of a user is either completed or pending and never both, so
\* for every search the completed and the pending results add up to all
\* results, and on the dashboard completedTasks + pendingTasks = totalTasks.
C22_StatusPartitionsTasks ==
    \A u \in Users :
        /\ \A t \in OwnedTasks(u) :
              /\ HasStatus(TaskRow(t), "all")
              /\ HasStatus(TaskRow(t), "completed") # HasStatus(TaskRow(t), "pending")
        /\ \A search \in Searches :
              \A all \in TaskIndexResults(u, [search |-> search, filter |-> "all"]),
                 completed \in TaskIndexResults(u, [search |-> search, filter |-> "completed"]),
                 pending \in TaskIndexResults(u, [search |-> search, filter |-> "pending"]) :
                    completed.total + pending.total = all.total
        /\ \A listRows \in DashboardLists(u), taskRows \in DashboardTasks(u) :
              /\ Stats(listRows, taskRows).completedTasks + Stats(listRows, taskRows).pendingTasks
                    = Stats(listRows, taskRows).totalTasks
              /\ Stats(listRows, taskRows).totalTasks = Cardinality(OwnedTasks(u))

\* The dashboard is rendered after the pending task was completed and the
\* completed one reopened.
C22_Witness ==
    /\ response.page = "Dashboard"
    /\ DOMAIN tasks = {1, 2}
    /\ tasks[1].is_completed /\ ~tasks[2].is_completed

(***************************************************************************)
(* Claims about the task listing.                                          *)
(***************************************************************************)

\* The envelope's fields agree with each other.
Consistent(page) ==
    /\ Len(page.data) > 0 => page.to - page.from + 1 = Len(page.data)
    /\ page.total = 0 => (page.from = 0 /\ page.to = 0)
    /\ 1 <= page.current_page /\ page.current_page <= page.last_page
    /\ page.total = 0 => page.last_page = 1
    /\ page.total > 0 => /\ (page.last_page - 1) * page.per_page < page.total
                         /\ page.total <= page.last_page * page.per_page

C30_SearchTakesEffectOnSubmit ==
    [][/\ \A value \in Statuses :
            HandleFilterChange(value) => taskVisit'.query.search = taskProps.filters.search
       /\ \A page \in PageControls :
            HandlePageChange(page) => taskVisit'.query.search = taskProps.filters.search
      ]_vars

(***************************************************************************)
(* Claims about requests in flight.                                        *)
(***************************************************************************)

\* C27: an open dialog of the Lists page is closed only by the user's close
\* action or by the success of a submit issued from this opening; the success
\* of a submit whose dialog was closed meanwhile leaves a dialog that was
\* opened since open, with its edit target and with what was typed into it.
C27_LateSuccessKeepsNewDialog ==
    [][/\ (isDialogOpen /\ ~isDialogOpen')
            => \/ HandleDialogClose
               \/ /\ VisitCompletes
                  /\ Closes(visit, VisitResult(Me, visit).status)
                  /\ ~visit.detached
       /\ (VisitCompletes /\ visit.method \in {"post", "put"} /\ visit.detached)
            => (isDialogOpen' = isDialogOpen /\ data' = data /\ editingList' = editingList)
      ]_vars

\* C28: while a create, update or delete issued from the Tasks page is in
\* flight, neither the submit control nor a delete control issues another.
C28_OneMutationInFlight ==
    [][taskVisit.method \in {"post", "put", "delete"}
          => /\ ~HandleSubmit
             /\ \A i \in DOMAIN taskProps.tasks.data :
                   ~HandleDelete(taskProps.tasks.data[i].id)
      ]_vars

(***************************************************************************)
(* Claims about the tasks dialog of the Lists page.                        *)
(***************************************************************************)

\* C21: a failed task fetch is caught: the handler shows the error toast and
\* goes on to open the tasks dialog; it adds no task detail to the selected
\* list and changes nothing else on the page or the server; and every click on
\* a list card, after a failure as before, issues a fetch for that list.
C21_FetchFailureCaught ==
    [][/\ \A list \in BagToSet(fetches) :
            FetchFails(list)
                => /\ toast' = FetchFailedToast
                   /\ isTasksDialogOpen'
                   /\ selectedList' = selectedList
                   /\ (selectedList.id = list.id /\ "tasks" \notin DOMAIN selectedList)
                         => "tasks" \notin DOMAIN selectedList'
                   /\ UNCHANGED <<props, isDialogOpen, editingList, data, processing,
                                  errors, visit, serverVars>>
       /\ \A i \in DOMAIN props.lists :
            HandleListClick(props.lists[i])
                => CopiesIn(props.lists[i], fetches') = CopiesIn(props.lists[i], fetches) + 1
       /\ (~isTasksDialogOpen /\ BagCardinality(fetches) < MaxFetches)
            => \A i \in DOMAIN props.lists : ENABLED HandleListClick(props.lists[i])
      ]_vars

\* The fetch of the selected list has failed: the error toast is up, the dialog
\* shows the list without tasks, and no fetch is pending.
C21_Witness ==
    /\ toast = FetchFailedToast /\ shown = 0
    /\ isTasksDialogOpen
    /\ selectedList # NoList /\ "tasks" \notin DOMAIN selectedList
    /\ fetches = EmptyBag

\* C29: when the last pending task fetch returns, the tasks dialog shows the
\* list that was clicked last with the tasks of that list: if the answer is
\* for that list, and also if it is for a list clicked earlier while the
\* dialog already shows the list clicked last with its tasks.
C29_LastClickedListShown ==
    [][\A list \in BagToSet(fetches) :
          (/\ FetchSucceeds(list)
           /\ fetches' = EmptyBag
           /\ \/ list.id = lastClicked
              \/ selectedList.id = lastClicked /\ "tasks" \in DOMAIN selectedList)
              => /\ selectedList'.id = lastClicked
                 /\ "tasks" \in DOMAIN selectedList'
                 /\ \A i \in DOMAIN selectedList'.tasks :
                       selectedList'.tasks[i].lists_id = lastClicked
      ]_vars

====
